---- MODULE Spec2Model ----
(***************************************************************************)
(* The worker-side job pipeline of processor-side-work/                    *)
(* processor_local_only.py: main_process_job sequencing steps 1..7, the    *)
(* thread pool of step_5_download_files, and download_single_file with its *)
(* retry loop.  One main (control) thread, one task per file object.       *)
(* Beside it, the Lambda entry points: lambda_handler of                   *)
(* producer-side-work/handler.py building and storing a job descriptor,    *)
(* lambda1_prepare_job of ecsfargatezipsolution/handler.py, get_one_job    *)
(* and the upload-URL lambda_handler, each invocation run to its response. *)
(*                                                                         *)
(* Network calls (the job API, the presigned URLs, the callback URL, the   *)
(* PUT) and the two archiving methods succeed or fail nondeterministically.*)
(* The remaining file-system calls (creating the job folder, the log and   *)
(* job_details.json, reading the archive back) are taken to succeed.  The  *)
(* dict comprehension of step 5 evaluates its key before its value, as     *)
(* Python does from version 3.8 on.                                        *)
(***************************************************************************)
EXTENDS Integers, Sequences, FiniteSets, TLC

\* ------------------------------------------------------------------ bounds
\* Longest file_object list of a descriptor in Spec.
MaxFiles == 2
\* Longest file_object list of a descriptor in SpecPool (exceeds the pool size).
PoolFiles == 5
\* Largest max_retries argument of step_5_download_files in SpecRetry, and
\* the longest file_object list there.
MaxRetries == 3
RetryFiles == 2
\* Most keys a descriptor is built from (the code draws 2 to 5).
MaxKeys == 2
\* random.randint(1, 100) is drawn from 1..RandMax.
RandMax == 2
\* Invocations of the entry points in SpecRepeat.
MaxInvocations == 2

\* ------------------------------------------------------- program constants
SIMULTANEOUS_DOWNLOADS_MAX == 4
\* The default of the max_retries parameter, which main_process_job uses.
DEFAULT_MAX_RETRIES == 1

\* ------------------------------------------------------------------ inputs
\* A file object of the descriptor as the code reads it: whether it is a JSON
\* object at all (has .get), its file_name and its presigned_url.  "" is an
\* absent or empty value; "#5" is a truthy value that is not a string, on
\* which os.path.join raises TypeError.
FileNames == {"a.pdf", "b.pdf"}

FileObjects ==
    [dict : {TRUE}, file_name : FileNames, presigned_url : {"u"}]
    \cup {[dict |-> TRUE,  file_name |-> "",      presigned_url |-> "u"],
          [dict |-> TRUE,  file_name |-> "a.pdf", presigned_url |-> ""],
          [dict |-> TRUE,  file_name |-> "#5",    presigned_url |-> "u"],
          [dict |-> FALSE, file_name |-> "",      presigned_url |-> ""]}

SeqsUpTo(S, n) == UNION {[1..k -> S] : k \in 0..n}

\* The parsed job file (step 2's return value): falsy ("empty"), a JSON value
\* that is not an object ("notdict"), or an object whose JobRequest holds
\* file_object and, when callback is TRUE, call_url_when_done_with_job_id.
JobFiles(files) ==
    [shape : {"dict"}, file_object : files, callback : BOOLEAN]
    \cup {[shape |-> "empty",   file_object |-> <<>>, callback |-> FALSE],
          [shape |-> "notdict", file_object |-> <<>>, callback |-> FALSE]}

\* The file_object lists of up to n entries that hold any first file object
\* and then well-formed ones with alternating names.
FileListsUpTo(n) ==
    {<<>>} \cup
    UNION {{[i \in 1..k |-> IF i = 1 THEN f
                            ELSE [dict |-> TRUE,
                                  file_name |-> IF i % 2 = 0 THEN "b.pdf" ELSE "a.pdf",
                                  presigned_url |-> "u"]] : f \in FileObjects}
           : k \in 1..n}

VARIABLES
    job_file_data,        \* the descriptor step 2 will return (input)
    max_retries,          \* step_5_download_files' max_retries (input)
    HAS_PSUTIL,           \* whether psutil, hence system_stats, can be imported
    unreliable,           \* the file objects whose download may fail (input)
    pc,                   \* main thread's position in main_process_job
    job_id,               \* "" until step 1 returned it
    task,                 \* per file object: the future and its task's frame
    collect_i,            \* index of the future the result loop waits on
    downloaded_files,     \* step 5's list of local paths
    completed_downloads,  \* step 5's telemetry counters
    active_downloads,
    disk,                 \* files folder: name -> whether it exists, and the
                          \* task whose bytes it holds (0: no bytes)
    overtaken,            \* history: some task finished before one submitted
                          \* earlier
    zip_file,             \* <job_id>_archive.zip: whether it exists, its entries
    fallback_zip,         \* <job_id>.zip, which the fallback writes
    zip_result,           \* step 6's returned archive path: "" is None
    response_data,        \* the callback's parsed answer: "" while there is
                          \* none, else whether it carries an upload_url
    upload_url,           \* the upload_url of the callback's answer, "" if none
    uploaded,             \* what each PUT sent and how it was answered
    calls,                \* step 6 calls and callback GETs issued so far
    exc,                  \* message of the exception in flight, "" if none
    result,               \* the record main_process_job returned
    visited,              \* run states entered so far, in order
    \* -- the Lambda entry points (producer side, callback, job API)
    store,                \* object store: key -> "present", "missing", "denied"
    endpoint,             \* scheme of the URLs the S3 client signs
    keys_to_use,          \* the keys a descriptor is built from
    invocations,          \* how many invocations the run may see (input)
    flaky,                \* whether SDK and network calls may fail (input)
    entry,                \* the entry point being invoked, "" when none
    event,                \* the job_id of the invocation's query string, or ""
    lpc,                  \* position in the invoked entry point
    key_i,                \* index of the key the building loop is at
    exists,               \* result of the last existence check, "" if none
    presigned_url,        \* the URL issued for the last key; scheme "" is None
    file_object_list,     \* the descriptor's file list
    file_metadata_list,
    errors,               \* the per-file error list
    files_hash,
    presigned_urls,       \* lambda1_prepare_job's list of signed links
    bucket,               \* descriptors written to S3, oldest first
    queue,                \* messages accepted by SQS
    invoked,              \* answers of the external endpoint to each POST
    response,             \* what the running invocation returned
    responses             \* the responses of the finished invocations

vars == <<job_file_data, max_retries, HAS_PSUTIL, unreliable, pc, job_id, task, collect_i,
          downloaded_files, completed_downloads, active_downloads, disk,
          overtaken, zip_file, fallback_zip, zip_result, response_data,
          upload_url, uploaded, calls, exc, result, visited,
          store, endpoint, keys_to_use, invocations, flaky, entry, event, lpc, key_i, exists,
          presigned_url, file_object_list, file_metadata_list, errors,
          files_hash, presigned_urls, bucket, queue, invoked, response,
          responses>>

inputs == <<job_file_data, max_retries, HAS_PSUTIL, unreliable>>
pool   == <<task, collect_i, downloaded_files, completed_downloads,
            active_downloads, disk, overtaken>>
later  == <<zip_file, fallback_zip, zip_result, response_data, upload_url,
            uploaded>>

cloud   == <<store, endpoint, keys_to_use, invocations, flaky>>
frame   == <<key_i, exists, presigned_url, file_object_list,
             file_metadata_list, errors, files_hash, presigned_urls>>
effects == <<bucket, queue, invoked>>
lambdas == <<cloud, entry, event, lpc, frame, effects, response, responses>>
worker  == <<inputs, pc, job_id, pool, later, calls, exc, result, visited>>

file_objects == job_file_data.file_object
total_files  == Len(file_objects)
Tasks        == 1..total_files

Min(a, b) == IF a < b THEN a ELSE b

RECURSIVE Pow2(_)
Pow2(n) == IF n = 0 THEN 1 ELSE 2 * Pow2(n - 1)

\* ------------------------------------------------- download_single_file
\* A task's frame: the loop variable attempt, the requests (urlopen calls)
\* it has issued, the attempts that raised, the seconds it has slept, and
\* what its future holds: ret is the returned local path, "" for None.
NewTask == [status |-> "unsubmitted", attempt |-> 0, requests |-> 0,
            errors |-> 0, waited |-> 0, ret |-> ""]

Executing == {"running", "opened", "sleeping"}
Terminal  == {"returned", "raised"}

local_file_path(i) == file_objects[i].file_name

\* Line 185: the bytes response.read() returns for the i-th link.  The
\* bodies of different links differ in content and in length: i bytes, each
\* marked i.
body(i) == [k \in 1..i |-> i]

\* A write of data at offset 0 of a file holding old: what lies beyond the
\* written bytes stays.
Overwrite(old, data) ==
    [k \in 1..(IF Len(old) > Len(data) THEN Len(old) ELSE Len(data)) |->
        IF k <= Len(data) THEN data[k] ELSE old[k]]

\* Lines 184-185: open(local_file_path, 'wb') creates the file or truncates
\* it; out_file.write puts the body at the start of the file as it is by
\* then, through the task's own handle.
NoFile     == [exists |-> FALSE, writer |-> 0, content |-> <<>>]
Truncated  == [exists |-> TRUE,  writer |-> 0, content |-> <<>>]
Written(i) ==
    [exists |-> TRUE, writer |-> i,
     content |-> Overwrite(disk[local_file_path(i)].content, body(i))]

\* A task that enters the retry loop without checking the two fields.
PrologueNoCheck(i) ==
    LET f == file_objects[i] IN
    IF ~HAS_PSUTIL \/ ~f.dict THEN "raised"
    ELSE IF f.file_name \notin FileNames THEN "raised"
    ELSE "running"

\* Lines 150-163: the import of system_stats, the two .get, the check of
\* file_name and presigned_url, and os.path.join; then the loop is entered.
Prologue(i) ==
    LET f == file_objects[i] IN
    IF ~HAS_PSUTIL \/ ~f.dict THEN "raised"
    ELSE IF f.file_name = "" \/ f.presigned_url = "" THEN "returned"
    ELSE IF f.file_name \notin FileNames THEN "raised"
    ELSE "running"

\* A retry loop that gives up one attempt too late.
LastAttemptOffByOne(t) == t.attempt = max_retries + 1

\* Line 198: the attempt that has just failed was the last one.
LastAttempt(t) == t.attempt = max_retries

\* A backoff that grows by one second with each attempt.
linear_wait(a) == a + 1

\* Line 203: the seconds slept after failed attempt number a.
retry_wait(a) == Pow2(a)

\* Lines 193-206: the except clause of one attempt.
OnError(t) ==
    IF LastAttempt(t)
    THEN [t EXCEPT !.status = "returned", !.ret = "", !.errors = @ + 1]
    ELSE [t EXCEPT !.status = "sleeping", !.errors = @ + 1,
                   !.waited = @ + retry_wait(t.attempt)]

\* A pool sized by the file count alone.
uncapped_workers == total_files

\* A pool one worker short.
short_workers == Min(SIMULTANEOUS_DOWNLOADS_MAX, total_files) - 1

\* Line 226.
actual_workers == Min(SIMULTANEOUS_DOWNLOADS_MAX, total_files)

Busy == {i \in Tasks : task[i].status \in Executing}

\* The executor's queue is first in, first out: a worker takes the oldest
\* queued task, and only an idle worker takes one.
WorkerFree == Cardinality(Busy) < actual_workers

\* Task i, on reaching status st, finishes while a task submitted before it
\* has not: the futures complete in another order than they were submitted.
Overtakes(i, st) ==
    /\ st \in Terminal
    /\ \E j \in 1..(i - 1) : task[j].status \notin Terminal

Start(i) ==
    /\ task[i].status = "queued"
    /\ \A j \in 1..(i - 1) : task[j].status # "queued"
    /\ WorkerFree
    /\ task' = [task EXCEPT ![i].status = Prologue(i)]
    /\ overtaken' = (overtaken \/ Overtakes(i, Prologue(i)))
    /\ UNCHANGED <<lambdas, inputs, pc, job_id, collect_i, downloaded_files,
                   completed_downloads, active_downloads, disk, later, calls,
                   exc, result, visited>>

\* Lines 181-184: urlopen, then open(local_file_path, 'wb'), which creates
\* or truncates the local file.  urlopen raising leaves the file untouched.
Connect(i) ==
    /\ task[i].status = "running"
    /\ \/ /\ task' = [task EXCEPT ![i].status = "opened", ![i].requests = @ + 1]
          /\ disk' = [disk EXCEPT ![local_file_path(i)] = Truncated]
       \/ /\ i \in unreliable
          /\ task' = [task EXCEPT ![i] = OnError([@ EXCEPT !.requests = @ + 1])]
          /\ disk' = disk
    /\ overtaken' = (overtaken \/ Overtakes(i, task'[i].status))
    /\ UNCHANGED <<lambdas, inputs, pc, job_id, collect_i, downloaded_files,
                   completed_downloads, active_downloads, later, calls, exc,
                   result, visited>>

\* Lines 185-191: response.read() and the write; read raising leaves the
\* file as it is.
Transfer(i) ==
    /\ task[i].status = "opened"
    /\ \/ /\ task' = [task EXCEPT ![i].status = "returned",
                                  ![i].ret = local_file_path(i)]
          /\ disk' = [disk EXCEPT ![local_file_path(i)] = Written(i)]
       \/ /\ i \in unreliable
          /\ task' = [task EXCEPT ![i] = OnError(@)]
          /\ disk' = disk
    /\ overtaken' = (overtaken \/ Overtakes(i, task'[i].status))
    /\ UNCHANGED <<lambdas, inputs, pc, job_id, collect_i, downloaded_files,
                   completed_downloads, active_downloads, later, calls, exc,
                   result, visited>>

\* Line 206 returning: the loop's next iteration.
Wake(i) ==
    /\ task[i].status = "sleeping"
    /\ task' = [task EXCEPT ![i].status = "running", ![i].attempt = @ + 1]
    /\ UNCHANGED <<lambdas, inputs, pc, job_id, collect_i, downloaded_files,
                   completed_downloads, active_downloads, disk, overtaken,
                   later, calls,
                   exc, result, visited>>

\* ------------------------------------------------ step_5_download_files
\* A future taken as finished as soon as a worker has picked it up.
FutureStarted(t) == t.status \notin {"unsubmitted", "queued"}

\* A future is finished once its task has returned or raised.
FutureFinished(t) == t.status \in Terminal

\* A result loop that does not wait for a submitted future.
FutureNoWait(i) == task[i].status # "unsubmitted"

\* future.result() returns or raises only once the future is finished.
FutureDone(i) == FutureFinished(task[i])

\* The executor's shutdown(wait=True) on leaving the with block: every
\* submitted task has finished.
PoolJoined ==
    \A i \in Tasks : task[i].status # "unsubmitted" => FutureFinished(task[i])

\* A result loop that keeps only the latest path.
CollectedLatest(files, t) ==
    IF t.status = "returned" /\ t.ret # "" THEN <<t.ret>> ELSE files

\* A result loop that appends whatever the future holds.
CollectedUnchecked(files, t) == Append(files, t.ret)

\* A result loop that puts each new path in front of the list.
CollectedInFront(files, t) ==
    IF t.status = "returned" /\ t.ret # "" THEN <<t.ret>> \o files ELSE files

\* Lines 260-262: a truthy result is appended; None, and a future that
\* raised, add nothing.
Collected(files, t) ==
    IF t.status = "returned" /\ t.ret # "" THEN Append(files, t.ret) ELSE files

\* The run state (JobRunState.state) the main thread is in at each position.
RunState(p) ==
    CASE p \in {"step1", "step2"} -> "Start"
      [] p = "step5" -> "Fetched"
      [] p \in {"submit", "collect", "with_exit", "with_exit_exc"} -> "Downloading"
      [] p \in {"step6", "fallback"} -> "Archiving"
      [] p \in {"callback", "step7_get", "step7_put"} -> "Uploading"
      [] p = "completed" -> "Completed"
      [] p \in {"except", "failed"} -> "Failed"

\* The run states entered on moving to position p.
Enter(p) ==
    IF RunState(p) = visited[Len(visited)] THEN visited
    ELSE Append(visited, RunState(p))

\* raise: the exception unwinds to main_process_job's except clause.
Raise(msg) ==
    /\ exc' = msg
    /\ pc' = "except"
    /\ visited' = Enter("except")

Goto(p) ==
    /\ pc' = p
    /\ visited' = Enter(p)
    /\ exc' = exc

\* A step 5 that raises on a job without files.
Step5BeginRaise ==
    /\ pc = "step5"
    /\ downloaded_files' = <<>>
    /\ completed_downloads' = 0
    /\ active_downloads' = 0
    /\ IF job_file_data.shape # "dict" \/ total_files = 0
       THEN Raise("No files to download")
       ELSE Goto("submit")
    /\ UNCHANGED <<lambdas, inputs, job_id, task, collect_i, disk, overtaken, later,
                   calls, result>>

\* Lines 211-234: the file objects are extracted; a descriptor that is not
\* an object, or an empty or absent list, returns [] at once.
Step5Begin ==
    /\ pc = "step5"
    /\ downloaded_files' = <<>>
    /\ completed_downloads' = 0
    /\ active_downloads' = 0
    /\ IF job_file_data.shape # "dict" \/ total_files = 0
       THEN /\ pc' = "step6"
            /\ visited' = visited \o <<"Downloading", "Archiving">>
            /\ exc' = exc
       ELSE Goto("submit")
    /\ UNCHANGED <<lambdas, inputs, job_id, task, collect_i, disk, overtaken, later,
                   calls, result>>

\* Lines 239-254: one iteration of the comprehension submits the task, then
\* evaluates file_obj.get for the label, which raises AttributeError on a
\* file object that is not a JSON object; the with block then waits for the
\* tasks already submitted.  After the last one active_downloads is set.
Submit ==
    /\ pc = "submit"
    /\ LET s == CHOOSE i \in Tasks :
                   /\ task[i].status = "unsubmitted"
                   /\ \A j \in 1..(i - 1) : task[j].status # "unsubmitted"
       IN /\ task' = [task EXCEPT ![s].status = "queued"]
          /\ IF ~file_objects[s].dict
             THEN /\ exc' = "AttributeError"
                  /\ pc' = "with_exit_exc"
                  /\ UNCHANGED <<collect_i, active_downloads>>
             ELSE IF s = total_files
             THEN /\ pc' = "collect"
                  /\ collect_i' = 1
                  /\ active_downloads' = total_files
                  /\ exc' = exc
             ELSE UNCHANGED <<pc, exc, collect_i, active_downloads>>
    /\ UNCHANGED <<lambdas, inputs, job_id, downloaded_files, completed_downloads, disk,
                   overtaken, later, calls, result, visited>>

\* A result loop that leaves the counters alone when the future raised.
CollectNoCountOnError ==
    /\ pc = "collect"
    /\ FutureDone(collect_i)
    /\ downloaded_files' = Collected(downloaded_files, task[collect_i])
    /\ IF task[collect_i].status = "raised"
       THEN UNCHANGED <<completed_downloads, active_downloads>>
       ELSE /\ completed_downloads' = completed_downloads + 1
            /\ active_downloads' = total_files - (completed_downloads + 1)
    /\ IF collect_i = total_files
       THEN pc' = "with_exit" /\ collect_i' = collect_i
       ELSE pc' = pc /\ collect_i' = collect_i + 1
    /\ UNCHANGED <<lambdas, inputs, job_id, task, disk, overtaken, later, calls, exc,
                   result, visited>>

\* Lines 257-277: the result loop takes the futures in submission order.
Collect ==
    /\ pc = "collect"
    /\ FutureDone(collect_i)
    /\ downloaded_files' = Collected(downloaded_files, task[collect_i])
    /\ completed_downloads' = completed_downloads + 1
    /\ active_downloads' = total_files - (completed_downloads + 1)
    /\ IF collect_i = total_files
       THEN pc' = "with_exit" /\ collect_i' = collect_i
       ELSE pc' = pc /\ collect_i' = collect_i + 1
    /\ UNCHANGED <<lambdas, inputs, job_id, task, disk, overtaken, later, calls, exc,
                   result, visited>>

\* An orchestrator that fails the job unless every file was downloaded.
WithExitStrict ==
    /\ pc = "with_exit"
    /\ PoolJoined
    /\ IF Len(downloaded_files) = total_files THEN Goto("step6")
       ELSE Raise("Failed to download all files")
    /\ UNCHANGED <<lambdas, inputs, job_id, pool, later, calls, result>>

\* Lines 278-287: the with block is left and downloaded_files returned.
WithExit ==
    /\ pc = "with_exit"
    /\ PoolJoined
    /\ Goto("step6")
    /\ UNCHANGED <<lambdas, inputs, job_id, pool, later, calls, result>>

\* The with block left by the exception of line 247, which then propagates.
WithExitExc ==
    /\ pc = "with_exit_exc"
    /\ PoolJoined
    /\ Raise(exc)
    /\ UNCHANGED <<lambdas, inputs, job_id, pool, later, calls, result>>

\* ------------------------------------------------------ main_process_job
NoResult == [keys |-> {}, job_id |-> "", downloaded_files |-> <<>>,
             error |-> ""]

\* A success record without the job id.
SuccessRecordNoId ==
    [keys |-> {"local_folder_path", "files_folder_path", "downloaded_files",
               "zip_file_path", "s3_key", "log_file", "processing_time_seconds"},
     job_id |-> "", downloaded_files |-> downloaded_files, error |-> ""]

\* Lines 522-531: the record of a successful run.
SuccessRecord ==
    [keys |-> {"job_id", "local_folder_path", "files_folder_path",
               "downloaded_files", "zip_file_path", "s3_key", "log_file",
               "processing_time_seconds"},
     job_id |-> job_id, downloaded_files |-> downloaded_files, error |-> ""]

\* Lines 547-550: the record of a failed run.
ErrorRecord(msg) ==
    [keys |-> {"error", "processing_time_seconds"},
     job_id |-> "", downloaded_files |-> <<>>, error |-> msg]

\* Lines 436-441: step 1 raises, or returns a body with a job_id, with or
\* without a job_file_download_url.
Step1 ==
    /\ pc = "step1"
    /\ \/ /\ Raise("Failed to fetch job details")
          /\ job_id' = job_id
       \/ /\ job_id' = "J1"
          /\ Raise("Missing job_id or job_file_download_url in response")
       \/ /\ job_id' = "J1"
          /\ Goto("step2")
    /\ UNCHANGED <<lambdas, inputs, pool, later, calls, result>>

\* An orchestrator that looks for the callback URL as soon as it has the
\* job file.
Step2ChecksCallback ==
    /\ pc = "step2"
    /\ \/ Raise("Failed to fetch job file")
       \/ IF job_file_data.shape = "empty"
          THEN Raise("Empty job file data received")
          ELSE IF job_file_data.shape = "dict" /\ ~job_file_data.callback
          THEN Raise("No callback URL found in job data")
          ELSE Goto("step5")
    /\ UNCHANGED <<lambdas, inputs, job_id, pool, later, calls, result>>

\* Lines 443-477: the job folder and the log, step 2 (which raises or
\* returns the parsed job file), the check that it is not empty, steps 3, 4.
Step2 ==
    /\ pc = "step2"
    /\ \/ Raise("Failed to fetch job file")
       \/ IF job_file_data.shape = "empty"
          THEN Raise("Empty job file data received")
          ELSE Goto("step5")
    /\ UNCHANGED <<lambdas, inputs, job_id, pool, later, calls, result>>

\* Lines 445-451: the job folder, process_work/<timestamp>-<job_id>.  A path
\* is the sequence of its components.
folder_name == "timestamp-" \o job_id

local_folder_path == <<"process_work", folder_name>>

\* Line 141: the files subfolder, named by the job id.
files_folder_path == Append(local_folder_path, job_id)

\* Line 292.
zip_file_path == Append(local_folder_path, "archive.zip")

\* os.path.dirname and os.path.basename of a path.
dirname(p) == SubSeq(p, 1, Len(p) - 1)

path_basename(p) == p[Len(p)]

\* os.path.relpath: one ".." for each component of start beyond the common
\* prefix, then the rest of the path.
relpath(p, start) ==
    LET Common == {c \in 0..Min(Len(p), Len(start)) :
                      \A k \in 1..c : p[k] = start[k]}
        c == CHOOSE m \in Common : \A n \in Common : n <= m
    IN [k \in 1..(Len(start) - c) |-> ".."] \o SubSeq(p, c + 1, Len(p))

\* Lines 302-307: the file paths os.walk yields, the job folder's own files
\* before those of the files subfolder.  Line 302 has created the archive
\* file by then, so the walk meets it among the folder's files.
Walk ==
    LET names == SelectSeq(<<"job_details.json", "log_file.txt", "archive.zip",
                             "a.pdf", "b.pdf">>,
                           LAMBDA n : n \in FileNames => disk[n].exists)
    IN [k \in 1..Len(names) |->
           IF names[k] \in FileNames THEN Append(files_folder_path, names[k])
           ELSE Append(local_folder_path, names[k])]

\* A walk that skips nothing.
SkipsNothing(file_path) == FALSE

\* Lines 310-311: the archive file itself is skipped.
Skipped(file_path) == file_path = zip_file_path

\* Lines 305-322: the files the primary method adds, in order.
ToAdd == SelectSeq(Walk, LAMBDA file_path : ~Skipped(file_path))

\* Line 319: an entry's name, relative to the parent of the job folder.
arcname(file_path) == relpath(file_path, dirname(local_folder_path))

\* The names of the files the primary method adds, in order.
WalkOrder == [k \in 1..Len(ToAdd) |-> path_basename(ToAdd[k])]

\* A walk of the files subfolder alone.
FolderFilesSubfolderOnly == {n \in FileNames : disk[n].exists}

FolderFiles == {WalkOrder[k] : k \in 1..Len(WalkOrder)}

\* The archive with the first n of the folder's files added (lines 316,
\* 322), and the files_processed step 6 reported.
Archive(n, reported) ==
    [exists |-> TRUE,
     entries |-> FolderFiles \cap {WalkOrder[k] : k \in 1..n},
     arcnames |-> [k \in 1..n |-> arcname(ToAdd[k])],
     files_processed |-> reported]

NoZip == [exists |-> FALSE, entries |-> {}, arcnames |-> <<>>,
          files_processed |-> 0]

\* Lines 300-341, 343-345: the primary method writes every file of the folder
\* into <job_id>_archive.zip and returns its path and files_processed; or it
\* raises before the archive file is created; or it raises after, leaving
\* the archive with the entries added so far and reporting nothing.
Step6 ==
    /\ pc = "step6"
    /\ calls' = [calls EXCEPT !.zip = @ + 1]
    /\ \/ /\ zip_file' = Archive(Len(ToAdd), Len(ToAdd))
          /\ zip_result' = "archive.zip"
          /\ Goto("callback")
       \/ /\ zip_file' = NoZip
          /\ zip_result' = zip_result
          /\ Goto("fallback")
       \/ /\ \E added \in 0..(Len(ToAdd) - 1) : zip_file' = Archive(added, 0)
          /\ zip_result' = zip_result
          /\ Goto("fallback")
    /\ UNCHANGED <<lambdas, inputs, job_id, pool, fallback_zip, response_data,
                   upload_url, uploaded, result>>

\* An orchestrator that goes on to the upload without checking step 6's
\* result.
FallbackUnchecked ==
    /\ pc = "fallback"
    /\ \/ /\ fallback_zip' = fallback_zip
          /\ zip_result' = zip_result
          /\ Goto("callback")
       \/ /\ fallback_zip' = [exists |-> TRUE,
                              entries |-> {n \in FileNames : disk[n].exists}]
          /\ zip_result' = IF zip_file.exists THEN "archive.zip" ELSE zip_result
          /\ Goto("callback")
    /\ UNCHANGED <<lambdas, inputs, job_id, pool, zip_file, response_data, upload_url,
                   uploaded, calls, result>>

\* Lines 346-367 and 485-486: shutil.make_archive writes <job_id>.zip from
\* the files subfolder; the size is then taken of <job_id>_archive.zip, which
\* raises when that file does not exist; any exception returns None, on
\* which main_process_job raises.
Fallback ==
    /\ pc = "fallback"
    /\ \/ /\ fallback_zip' = fallback_zip
          /\ zip_result' = zip_result
          /\ Raise("Failed to create zip archive")
       \/ /\ fallback_zip' = [exists |-> TRUE,
                              entries |-> {n \in FileNames : disk[n].exists}]
          /\ IF zip_file.exists
             THEN zip_result' = "archive.zip" /\ Goto("callback")
             ELSE zip_result' = zip_result
                  /\ Raise("Failed to create zip archive")
    /\ UNCHANGED <<lambdas, inputs, job_id, pool, zip_file, response_data, upload_url,
                   uploaded, calls, result>>

\* A check of the callback URL that logs the error and goes on.
CallbackLogOnly ==
    /\ pc = "callback"
    /\ IF job_file_data.shape # "dict" THEN Raise("AttributeError")
       ELSE Goto("step7_get")
    /\ UNCHANGED <<lambdas, inputs, job_id, pool, later, calls, result>>

\* Lines 490-497: the callback URL is read from the job file;
\* job_file_data.get raises AttributeError on a job file that is no object.
Callback ==
    /\ pc = "callback"
    /\ IF job_file_data.shape # "dict" THEN Raise("AttributeError")
       ELSE IF ~job_file_data.callback
       THEN Raise("No callback URL found in job data")
       ELSE Goto("step7_get")
    /\ UNCHANGED <<lambdas, inputs, job_id, pool, later, calls, result>>

\* A step 7 that asks the callback URL again when the answer has no
\* upload_url.
Step7GetRetry ==
    /\ pc = "step7_get"
    /\ calls' = [calls EXCEPT !.get = @ + 1]
    /\ \/ /\ response_data' = response_data
          /\ upload_url' = upload_url
          /\ Raise("Failed to upload zip file")
       \/ /\ response_data' = "no upload_url"
          /\ upload_url' = ""
          /\ UNCHANGED <<pc, exc, visited>>
       \/ /\ response_data' = "upload_url"
          /\ upload_url' = "s3-put-url"
          /\ Goto("step7_put")
    /\ UNCHANGED <<lambdas, inputs, job_id, pool, zip_file, fallback_zip, zip_result,
                   uploaded, result>>

\* A step 7 that goes on to the PUT whatever the callback answered.
Step7GetUnchecked ==
    /\ pc = "step7_get"
    /\ calls' = [calls EXCEPT !.get = @ + 1]
    /\ \/ /\ response_data' = response_data
          /\ upload_url' = upload_url
          /\ Raise("Failed to upload zip file")
       \/ /\ response_data' = "no upload_url"
          /\ upload_url' = ""
          /\ Goto("step7_put")
       \/ /\ response_data' = "upload_url"
          /\ upload_url' = "s3-put-url"
          /\ Goto("step7_put")
    /\ UNCHANGED <<lambdas, inputs, job_id, pool, zip_file, fallback_zip, zip_result,
                   uploaded, result>>

\* Lines 373-393, 425-427, 502-503: the GET of the callback URL raises, or
\* answers without an upload_url, or answers with one.
Step7Get ==
    /\ pc = "step7_get"
    /\ calls' = [calls EXCEPT !.get = @ + 1]
    /\ \/ /\ response_data' = response_data
          /\ upload_url' = upload_url
          /\ Raise("Failed to upload zip file")
       \/ /\ response_data' = "no upload_url"
          /\ upload_url' = ""
          /\ Raise("Failed to upload zip file")
       \/ /\ response_data' = "upload_url"
          /\ upload_url' = "s3-put-url"
          /\ Goto("step7_put")
    /\ UNCHANGED <<lambdas, inputs, job_id, pool, zip_file, fallback_zip, zip_result,
                   uploaded, result>>

\* Lines 398-411: the PUT request carries the bytes of the file at
\* zip_file_path.
Put(answer) == [entries |-> zip_file.entries, status |-> answer]

\* A step 7 that sends the PUT again after a failure.
Step7PutRetry ==
    /\ pc = "step7_put"
    /\ \/ /\ uploaded' = Append(uploaded, Put("error"))
          /\ UNCHANGED <<pc, exc, visited>>
          /\ result' = result
       \/ /\ uploaded' = Append(uploaded, Put("not 2xx"))
          /\ UNCHANGED <<pc, exc, visited>>
          /\ result' = result
       \/ /\ uploaded' = Append(uploaded, Put("2xx"))
          /\ Goto("completed")
          /\ result' = SuccessRecord
    /\ UNCHANGED <<lambdas, inputs, job_id, pool, zip_file, fallback_zip, zip_result,
                   response_data, upload_url, calls>>

\* A step 7 that takes any answered PUT for a success.
Step7PutAnyStatus ==
    /\ pc = "step7_put"
    /\ \/ /\ uploaded' = Append(uploaded, Put("error"))
          /\ Raise("Failed to upload zip file")
          /\ result' = result
       \/ /\ \E answer \in {"not 2xx", "2xx"} :
                uploaded' = Append(uploaded, Put(answer))
          /\ Goto("completed")
          /\ result' = SuccessRecord
    /\ UNCHANGED <<lambdas, inputs, job_id, pool, zip_file, fallback_zip, zip_result,
                   response_data, upload_url, calls>>

\* Lines 395-427, 502-531: the PUT of the archive raises, or answers with a
\* status outside 2xx, or answers 2xx, on which the success record is
\* returned.
Step7Put ==
    /\ pc = "step7_put"
    /\ \/ /\ uploaded' = Append(uploaded, Put("error"))
          /\ Raise("Failed to upload zip file")
          /\ result' = result
       \/ /\ uploaded' = Append(uploaded, Put("not 2xx"))
          /\ Raise("Failed to upload zip file")
          /\ result' = result
       \/ /\ uploaded' = Append(uploaded, Put("2xx"))
          /\ Goto("completed")
          /\ result' = SuccessRecord
    /\ UNCHANGED <<lambdas, inputs, job_id, pool, zip_file, fallback_zip, zip_result,
                   response_data, upload_url, calls>>

\* An except clause that logs and re-raises.
ExceptReraise ==
    /\ pc = "except"
    /\ pc' = "raised"
    /\ UNCHANGED <<lambdas, inputs, job_id, pool, later, calls, exc, result, visited>>

\* Lines 533-550: the except clause returns the error record.
Except ==
    /\ pc = "except"
    /\ result' = ErrorRecord(exc)
    /\ pc' = "failed"
    /\ UNCHANGED <<lambdas, inputs, job_id, pool, later, calls, exc, visited>>

\* ------------------------------------------- producer-side-work/handler.py
\* Lines 34-39: the keys of the large test files; os.path.basename of each.
LargeKeys ==
    <<"largefileziptest/my1gbfile1.pdf", "largefileziptest/my1gbfile2.pdf",
      "largefileziptest/my1gbfile3.pdf", "largefileziptest/my1gbfile4.pdf",
      "largefileziptest/my1gbfile5.pdf">>

get_large_hardcoded_keys(k) == SubSeq(LargeKeys, 1, k)

basename(key) ==
    LET n == CHOOSE i \in 1..Len(LargeKeys) : LargeKeys[i] = key
    IN <<"my1gbfile1.pdf", "my1gbfile2.pdf", "my1gbfile3.pdf",
         "my1gbfile4.pdf", "my1gbfile5.pdf">>[n]

\* uuid.uuid4() of the n-th invocation.
uuid4(n) == <<"job-1", "job-2", "job-3", "job-4">>[n]

StoreStates == {"present", "missing", "denied"}

NoUrl    == [scheme |-> "", key |-> ""]
Url(key) == [scheme |-> endpoint, key |-> key]

NoMetadata == [ETag |-> ""]

\* Lines 46-65: head_object answers for a present object; a 404, every
\* other ClientError and every other exception return False.
validate_s3_object_exists(key) == store[key] = "present"

\* Lines 67-83: the metadata of a present object, None otherwise.
get_s3_object_metadata(key) ==
    IF store[key] = "present" THEN [ETag |-> key] ELSE NoMetadata

\* Lines 85-103: None when the existence check fails, None when the
\* signing call raises (signs = FALSE), else the signed URL.
generate_presigned_url(key, signs) ==
    IF ~validate_s3_object_exists(key) THEN NoUrl
    ELSE IF ~signs THEN NoUrl
    ELSE Url(key)

NoHash == [random |-> 0, md5 |-> <<>>]

\* Lines 105-142: the values generate_files_hash can return: a random
\* integer for an empty or absent list (or one without usable entries),
\* else the MD5 digest of the concatenated metadata.
generate_files_hash(file_metadata) ==
    LET usable == SelectSeq(file_metadata, LAMBDA m : m # NoMetadata) IN
    IF usable = <<>>
    THEN {[random |-> n, md5 |-> <<>>] : n \in 1..RandMax}
    ELSE {[random |-> 0, md5 |-> [i \in 1..Len(usable) |-> usable[i].ETag]]}

NoResponse ==
    [entry |-> "", statusCode |-> 0, message |-> "", job_id |-> "",
     files_count |-> 0, errors |-> 0, files_hash |-> NoHash, s3_key |-> <<>>]

\* The n-th invocation, counted over all entry points.
Invocation == Len(responses) + 1

\* The invocation ends: by returning a response, or (statusCode 0) by an
\* exception that leaves the entry point.
Return(resp) ==
    /\ response' = resp
    /\ responses' = Append(responses, resp)
    /\ lpc' = "idle"
    /\ entry' = ""

EntryPoints ==
    {"lambda_handler", "lambda1_prepare_job", "get_one_job", "upload_handler"}

FirstPosition(e) ==
    CASE e = "lambda_handler" -> "keys"
      [] e = "lambda1_prepare_job" -> "list"
      [] e = "get_one_job" -> "get_one_job"
      [] e = "upload_handler" -> "get_upload_url"

\* The job_id values of a request's query string; "" is none.
Events == {"", "J1", "J2"}

\* The platform invokes entry point e: its locals start afresh.
Invoke(e) ==
    /\ lpc = "idle"
    /\ Invocation <= invocations
    /\ entry' = e
    /\ event' \in (IF e = "upload_handler" THEN Events ELSE {""})
    /\ lpc' = FirstPosition(e)
    /\ key_i' = 1
    /\ exists' = ""
    /\ presigned_url' = NoUrl
    /\ file_object_list' = <<>>
    /\ file_metadata_list' = <<>>
    /\ errors' = <<>>
    /\ files_hash' = NoHash
    /\ presigned_urls' = <<>>
    /\ response' = NoResponse
    /\ UNCHANGED <<worker, cloud, effects, responses>>

\* Whether a call to the SDK or the network may succeed / fail here.
Outcomes == IF flaky THEN {TRUE, FALSE} ELSE {TRUE}

FileObject(key, url) == [file_name |-> basename(key), presigned_url |-> url]

\* Lines 155-182: one iteration of the loop over keys_to_use.
BuildKey ==
    /\ lpc = "keys"
    /\ LET key      == keys_to_use[key_i]
           metadata == get_s3_object_metadata(key)
       IN \E signs \in Outcomes :
             LET url == generate_presigned_url(key, signs) IN
             /\ exists' = IF validate_s3_object_exists(key) THEN "True" ELSE "False"
             /\ presigned_url' = url
             /\ file_metadata_list' =
                    IF metadata # NoMetadata
                    THEN Append(file_metadata_list, metadata)
                    ELSE file_metadata_list
             /\ IF url = NoUrl
                THEN /\ errors' = Append(errors,
                            [file |-> key,
                             error |-> "Failed to generate presigned URL"])
                     /\ file_object_list' = file_object_list
                ELSE /\ errors' =
                            IF url.scheme # "https"
                            THEN Append(errors,
                                    [file |-> key,
                                     error |-> "Generated URL doesn't look valid"])
                            ELSE errors
                     /\ file_object_list' =
                            Append(file_object_list, FileObject(key, url))
    /\ key_i' = key_i + 1
    /\ lpc' = IF key_i = Len(keys_to_use) THEN "persist" ELSE "keys"
    /\ UNCHANGED <<worker, cloud, entry, event, files_hash, presigned_urls,
                   effects, response, responses>>

\* Lines 184-226: the hash (of None), the job request, the folder check
\* (whose errors are logged only) and put_object, which can raise.
StoreJob ==
    /\ lpc = "persist"
    /\ files_hash' \in generate_files_hash(<<>>)
    /\ \/ /\ bucket' = Append(bucket,
                         [entry |-> entry, job_id |-> uuid4(Invocation),
                          file_object |-> file_object_list, files |-> <<>>])
          /\ lpc' = "respond"
          /\ UNCHANGED <<entry, response, responses>>
       \/ /\ flaky
          /\ bucket' = bucket
          /\ Return([NoResponse EXCEPT !.entry = entry])
    /\ UNCHANGED <<worker, cloud, event, key_i, exists, presigned_url,
                   file_object_list, file_metadata_list, errors,
                   presigned_urls, queue, invoked>>

\* Lines 228-255: the link to the job file and the response.
Respond ==
    /\ lpc = "respond"
    /\ \E signs \in Outcomes :
          Return([entry |-> entry, statusCode |-> 200,
                  message |-> IF errors # <<>>
                              THEN "Job created with errors. Some files may not be accessible."
                              ELSE "Job created successfully.",
                  job_id |-> uuid4(Invocation),
                  files_count |-> Len(file_object_list),
                  errors |-> Len(errors),
                  files_hash |-> files_hash,
                  s3_key |-> IF signs THEN <<"my_jobs_to_send", uuid4(Invocation)>>
                             ELSE <<>>])
    /\ UNCHANGED <<worker, cloud, event, frame, effects>>

\* --------------------------------------- ecsfargatezipsolution/handler.py
Failure(status, msg) ==
    [NoResponse EXCEPT !.entry = entry, !.statusCode = status, !.message = msg]

\* Lines 87-98: the keys listed under the folder.
list_files_in_s3 == SelectSeq(keys_to_use, LAMBDA k : store[k] = "present")

\* Lines 157-183: the listing raises (500), lists nothing (404), or the
\* links are signed; a key whose signing raises is left out (lines 100-114).
ListAndSign ==
    /\ lpc = "list"
    /\ \/ /\ flaky
          /\ Return(Failure(500, "Internal Server Error"))
          /\ presigned_urls' = presigned_urls
       \/ /\ list_files_in_s3 = <<>>
          /\ Return(Failure(404, "No files found in the folder"))
          /\ presigned_urls' = presigned_urls
       \/ /\ list_files_in_s3 # <<>>
          /\ \E signed \in SUBSET {k \in DOMAIN store : store[k] = "present"} :
                /\ (~flaky) => signed = {k \in DOMAIN store : store[k] = "present"}
                /\ presigned_urls' =
                       LET keys == SelectSeq(list_files_in_s3,
                                             LAMBDA k : k \in signed)
                       IN [i \in 1..Len(keys) |-> FileObject(keys[i], Url(keys[i]))]
          /\ lpc' = "upload"
          /\ UNCHANGED <<entry, response, responses>>
    /\ UNCHANGED <<worker, cloud, event, key_i, exists, presigned_url,
                   file_object_list, file_metadata_list, errors, files_hash,
                   effects>>

\* A lambda1_prepare_job that announces the job whether or not the
\* descriptor was stored.
UploadJsonUnchecked ==
    /\ lpc = "upload"
    /\ \/ bucket' = Append(bucket,
                      [entry |-> entry, job_id |-> uuid4(Invocation),
                       file_object |-> presigned_urls,
                       files |-> [i \in 1..Len(list_files_in_s3) |->
                                     basename(list_files_in_s3[i])]])
       \/ flaky /\ bucket' = bucket
    /\ lpc' = "push"
    /\ UNCHANGED <<entry, response, responses>>
    /\ UNCHANGED <<worker, cloud, event, frame, queue, invoked>>

\* Lines 116-129, 185, 201-202: upload_json_to_s3 returns True after
\* put_object, False when it raised, on which 500 is returned.
UploadJson ==
    /\ lpc = "upload"
    /\ \/ /\ bucket' = Append(bucket,
                         [entry |-> entry, job_id |-> uuid4(Invocation),
                          file_object |-> presigned_urls,
                          files |-> [i \in 1..Len(list_files_in_s3) |->
                                        basename(list_files_in_s3[i])]])
          /\ lpc' = "push"
          /\ UNCHANGED <<entry, response, responses>>
       \/ /\ flaky
          /\ bucket' = bucket
          /\ Return(Failure(500, "Failed to upload JSON to S3"))
    /\ UNCHANGED <<worker, cloud, event, frame, queue, invoked>>

\* Lines 131-140, 189: send_message; an exception is printed and dropped.
PushToSqs ==
    /\ lpc = "push"
    /\ \/ queue' = Append(queue, [job_id |-> uuid4(Invocation),
                                  body |-> presigned_urls])
       \/ flaky /\ queue' = queue
    /\ lpc' = "invoke"
    /\ UNCHANGED <<worker, cloud, entry, event, frame, bucket, invoked,
                   response, responses>>

\* Lines 142-153, 192-200: the POST to the external endpoint is answered
\* 200, answered otherwise, or raises; the response is 200 in each case.
InvokeExternal ==
    /\ lpc = "invoke"
    /\ \E answer \in {"200"} \cup (IF flaky THEN {"not 200", "error"} ELSE {}) :
          invoked' = Append(invoked, [job_id |-> uuid4(Invocation),
                                      answer |-> answer])
    /\ Return([Failure(200, "JSON file uploaded successfully, presigned URLs pushed to SQS, and external Lambda invoked")
                  EXCEPT !.job_id = uuid4(Invocation)])
    /\ UNCHANGED <<worker, cloud, event, frame, bucket, queue>>

\* ------------------------------------- processor-side-work/handler_get_one_job.py
\* The status codes urlopen reports through HTTPError.
UpstreamErrors == {403, 404, 500, 503}

\* Lines 21-70: the API answers with JSON (200 is returned), with a body
\* that is no JSON (json.loads raises: 500), with an HTTP error status
\* (e.code is returned), or cannot be reached (500).
GetOneJob ==
    /\ lpc = "get_one_job"
    /\ \/ Return(Failure(200, "body"))
       \/ flaky /\ Return(Failure(500, "Unexpected error"))
       \/ flaky /\ \E code \in UpstreamErrors : Return(Failure(code, "HTTP Error"))
       \/ flaky /\ Return(Failure(500, "URL Error"))
    /\ UNCHANGED <<worker, cloud, event, frame, effects>>

\* ------------------------------------------ producer-side-work/upload_handler.py
UPLOAD_FOLDER == "zip_processed_by_processor"

\* A handler that takes the query string's job_id as it comes.
QueryJobId == event

\* Lines 21-31: the job_id of the query string, or the default.
RequestJobId == IF event = "" THEN "test-job-id" ELSE event

\* Lines 35-73: the S3 key, the signed PUT link and the response; 500 when
\* signing raises.
GetUploadUrl ==
    /\ lpc = "get_upload_url"
    /\ \/ Return([Failure(200, "upload_url") EXCEPT
                     !.job_id = RequestJobId,
                     !.s3_key = <<UPLOAD_FOLDER, RequestJobId, RequestJobId>>])
       \/ flaky /\ Return(Failure(500, "Error generating presigned URL"))
    /\ UNCHANGED <<worker, cloud, event, frame, effects>>

\* No entry point is being invoked.
InitFrame ==
    /\ entry = ""
    /\ event = ""
    /\ lpc = "idle"
    /\ key_i = 1
    /\ exists = ""
    /\ presigned_url = NoUrl
    /\ file_object_list = <<>>
    /\ file_metadata_list = <<>>
    /\ errors = <<>>
    /\ files_hash = NoHash
    /\ presigned_urls = <<>>
    /\ bucket = <<>>
    /\ queue = <<>>
    /\ invoked = <<>>
    /\ response = NoResponse
    /\ responses = <<>>

\* No entry point is ever invoked: the worker's specifications.
InitIdle ==
    /\ store = <<>>
    /\ endpoint = "https"
    /\ keys_to_use = <<>>
    /\ invocations = 0
    /\ flaky = FALSE
    /\ InitFrame

\* ---------------------------------------------------------- specification
InitRun ==
    /\ pc = "step1"
    /\ job_id = ""
    /\ task = [i \in Tasks |-> NewTask]
    /\ collect_i = 1
    /\ downloaded_files = <<>>
    /\ completed_downloads = 0
    /\ active_downloads = 0
    /\ disk = [n \in FileNames |-> NoFile]
    /\ overtaken = FALSE
    /\ zip_file = NoZip
    /\ fallback_zip = NoZip
    /\ zip_result = ""
    /\ response_data = ""
    /\ upload_url = ""
    /\ uploaded = <<>>
    /\ calls = [zip |-> 0, get |-> 0]
    /\ exc = ""
    /\ result = NoResult
    /\ visited = <<"Start">>

\* main_process_job on any descriptor; it calls step 5 with the default
\* max_retries.
Init ==
    /\ job_file_data \in JobFiles(SeqsUpTo(FileObjects, MaxFiles))
    /\ max_retries = DEFAULT_MAX_RETRIES
    /\ HAS_PSUTIL \in BOOLEAN
    /\ unreliable = Tasks
    /\ InitRun
    /\ InitIdle

\* Jobs larger than the pool, run as main_process_job runs them; only the
\* first link may fail.
InitPool ==
    /\ job_file_data \in [shape : {"dict"}, file_object : FileListsUpTo(PoolFiles),
                          callback : {TRUE}]
    /\ max_retries = DEFAULT_MAX_RETRIES
    /\ HAS_PSUTIL = TRUE
    /\ unreliable = Tasks \cap {1}
    /\ InitRun
    /\ InitIdle

Next ==
    \/ Step1 \/ Step2 \/ Step5Begin \/ Submit \/ Collect \/ WithExit
    \/ WithExitExc \/ Step6 \/ Fallback \/ Callback \/ Step7Get \/ Step7Put
    \/ Except
    \/ \E i \in Tasks : Start(i)
    \/ \E i \in Tasks : Connect(i)
    \/ \E i \in Tasks : Transfer(i)
    \/ \E i \in Tasks : Wake(i)

Spec == Init /\ [][Next]_vars

SpecPool == InitPool /\ [][Next]_vars

\* Small jobs whose step 5 is called with any max_retries up to MaxRetries.
InitRetry ==
    /\ job_file_data \in [shape : {"dict"}, file_object : FileListsUpTo(RetryFiles),
                          callback : {TRUE}]
    /\ max_retries \in 0..MaxRetries
    /\ HAS_PSUTIL = TRUE
    /\ unreliable = Tasks
    /\ InitRun
    /\ InitIdle

SpecRetry == InitRetry /\ [][Next]_vars

\* The same runs under scheduling: the main thread and the pool's threads
\* keep running, urlopen, read and sleep each return or raise, and so do the
\* calls of the later steps; a step that can be taken is taken in the end.
SpecFair == InitRetry /\ [][Next]_vars /\ WF_vars(Next)

\* The worker is not run: the entry points' specifications.
InitNoWorker ==
    /\ job_file_data = [shape |-> "empty", file_object |-> <<>>, callback |-> FALSE]
    /\ max_retries = DEFAULT_MAX_RETRIES
    /\ HAS_PSUTIL = TRUE
    /\ unreliable = {}
    /\ InitRun

\* One invocation of any entry point, against any state of the store, with
\* calls that may fail.
InitLambdas ==
    /\ keys_to_use \in {get_large_hardcoded_keys(k) : k \in 2..MaxKeys}
    /\ store \in [{keys_to_use[i] : i \in 1..Len(keys_to_use)} -> StoreStates]
    /\ endpoint \in {"https", "http"}
    /\ invocations = 1
    /\ flaky = TRUE
    /\ InitFrame
    /\ InitNoWorker

NextLambdas ==
    \/ \E e \in EntryPoints : Invoke(e)
    \/ BuildKey \/ StoreJob \/ Respond
    \/ ListAndSign \/ UploadJson \/ PushToSqs \/ InvokeExternal
    \/ GetOneJob
    \/ GetUploadUrl

SpecLambdas == InitLambdas /\ [][NextLambdas]_vars

\* Repeated invocations of the producer and of the callback endpoint
\* against an unchanging store whose objects all exist, no call failing.
InitRepeat ==
    /\ keys_to_use \in {get_large_hardcoded_keys(k) : k \in 2..MaxKeys}
    /\ store = [k \in {keys_to_use[i] : i \in 1..Len(keys_to_use)} |-> "present"]
    /\ endpoint \in {"https", "http"}
    /\ invocations = MaxInvocations
    /\ flaky = FALSE
    /\ InitFrame
    /\ InitNoWorker

NextRepeat ==
    \/ \E e \in {"lambda_handler", "upload_handler"} : Invoke(e)
    \/ BuildKey \/ StoreJob \/ Respond
    \/ GetUploadUrl

SpecRepeat == InitRepeat /\ [][NextRepeat]_vars

\* ------------------------------------------------------------ properties
Stages == {visited[k] : k \in 1..Len(visited)}

\* step_5_download_files has returned (normally).
Step5Returned == "Archiving" \in Stages

\* step_5_download_files was left by an exception.
Step5Aborted ==
    \/ pc = "with_exit_exc"
    \/ /\ pc \in {"except", "failed"}
       /\ Len(visited) >= 2
       /\ visited[Len(visited) - 1] = "Downloading"

\* A file object with a file name and a URL.
ValidRef(f) == f.dict /\ f.file_name \in FileNames /\ f.presigned_url # ""

Succeeded(i) == task[i].status = "returned" /\ task[i].ret # ""
\* The task gave up after its last attempt failed.
Exhausted(i) == task[i].status = "returned" /\ task[i].ret = "" /\ task[i].errors > 0

RECURSIVE SucceededPaths(_)
SucceededPaths(k) ==
    IF k = 0 THEN <<>>
    ELSE IF Succeeded(k) THEN Append(SucceededPaths(k - 1), task[k].ret)
    ELSE SucceededPaths(k - 1)

\* C1: when every file object of a job of k >= 1 files has a file name and a
\* URL and every download request made for it succeeded, step 5 returns
\* exactly k local paths, one per file, and no file ended failed, whatever
\* the interleaving of the pool.
C1_AllSucceed ==
    ( /\ Step5Returned
      /\ total_files >= 1
      /\ \A i \in Tasks : /\ ValidRef(file_objects[i])
                          /\ task[i].requests >= 1
                          /\ task[i].errors = 0 )
    => /\ Len(downloaded_files) = total_files
       /\ \A i \in Tasks : Succeeded(i) /\ downloaded_files[i] = local_file_path(i)

C1_Witness ==
    /\ Step5Returned
    /\ total_files > SIMULTANEOUS_DOWNLOADS_MAX
    /\ \A i \in Tasks : /\ ValidRef(file_objects[i])
                        /\ task[i].requests >= 1
                        /\ task[i].errors = 0
    /\ Len(downloaded_files) = total_files

\* C2: a task issues at most max_retries + 1 requests; one whose attempts
\* failed at most max_retries times and that has returned holds its local
\* path; one whose attempts failed max_retries + 1 times has returned None
\* after exactly max_retries + 1 requests.
C2_RetryBound ==
    \A i \in Tasks :
        LET t == task[i] IN
        /\ t.requests <= max_retries + 1
        /\ t.errors <= max_retries + 1
        /\ (t.status = "returned" /\ t.requests >= 1 /\ t.errors <= max_retries)
               => t.ret = local_file_path(i)
        /\ t.errors = max_retries + 1
               => /\ t.status = "returned"
                  /\ t.ret = ""
                  /\ t.requests = max_retries + 1

C2_Witness ==
    /\ max_retries = MaxRetries
    /\ \E i, j \in Tasks :
          /\ Succeeded(i) /\ task[i].errors = max_retries
          /\ Exhausted(j) /\ task[j].errors = max_retries + 1
                          /\ task[j].requests = max_retries + 1

\* C3: never more than min(SIMULTANEOUS_DOWNLOADS_MAX, n) tasks execute at
\* once; and when the n files do not exceed SIMULTANEOUS_DOWNLOADS_MAX, a
\* queued task always finds an idle worker.
C3_PoolBound ==
    /\ Cardinality(Busy) <= Min(SIMULTANEOUS_DOWNLOADS_MAX, total_files)
    /\ total_files <= SIMULTANEOUS_DOWNLOADS_MAX
          => \A i \in Tasks : task[i].status = "queued" => WorkerFree

\* All n tasks of a job smaller than the pool limit execute at the same time.
C3_Witness ==
    /\ total_files >= 2
    /\ total_files < SIMULTANEOUS_DOWNLOADS_MAX
    /\ Busy = Tasks

\* The pool of a job larger than the limit is saturated while a task waits.
C3_Saturated ==
    /\ total_files > SIMULTANEOUS_DOWNLOADS_MAX
    /\ Cardinality(Busy) = SIMULTANEOUS_DOWNLOADS_MAX
    /\ \E i \in Tasks : task[i].status = "queued"

Returned == pc \in {"completed", "failed"}

\* psutil is installed, as the deployment intends.
AsDeployed == HAS_PSUTIL

\* C5 (as claimed): a run whose descriptor has an empty file list never
\* ends Completed, and no archive of it is uploaded.
C5_EmptyNeverCompleted ==
    (AsDeployed /\ job_file_data.shape = "dict" /\ total_files = 0)
        => /\ pc # "completed"
           /\ \A k \in 1..Len(uploaded) : uploaded[k].status # "2xx"

\* The messages of the failures that follow the scheduler's return.
LaterFailures ==
    {"Failed to create zip archive", "AttributeError",
     "No callback URL found in job data", "Failed to upload zip file"}

\* C6: failed files never stop the run.  A run all of whose file objects
\* are JSON objects and whose tasks have all reached their outcome has
\* entered Archiving; a run that failed after the scheduler returned failed
\* in the archive, the callback URL or the upload; and a run whose PUT was
\* answered 2xx ended Completed.
C6_PartialProceeds ==
    /\ ( /\ pc = "failed"
         /\ job_file_data.shape = "dict"
         /\ total_files >= 1
         /\ \A i \in Tasks : file_objects[i].dict /\ task[i].status \in Terminal )
       => Step5Returned
    /\ (pc = "failed" /\ Step5Returned) => result.error \in LaterFailures
    /\ (Returned /\ uploaded # <<>> /\ uploaded[1].status = "2xx")
       => pc = "completed"

C6_Witness ==
    /\ pc = "completed"
    /\ \E i, j \in Tasks : Exhausted(i) /\ Succeeded(j)
    /\ downloaded_files = SucceededPaths(total_files)

Rank(st) ==
    CASE st = "Start" -> 0
      [] st = "Fetched" -> 1
      [] st = "Downloading" -> 2
      [] st = "Archiving" -> 3
      [] st = "Uploading" -> 4
      [] st = "Completed" -> 5
      [] st = "Failed" -> 6

\* C7: the run states are entered in forward order, none twice; the archive,
\* the callback GET and the PUT happen at most once; and nothing of a stage
\* happens unless every earlier stage succeeded: no task is submitted
\* without a fetched job file, no archive is made after the scheduler was
\* left by an exception, no GET is issued without an archive and a
\* callback URL, no PUT without an upload_url; an exception in flight or
\* handled means Failed.
C7_ForwardOnly ==
    /\ \A k \in 1..(Len(visited) - 1) : Rank(visited[k]) < Rank(visited[k + 1])
    /\ visited[Len(visited)] = RunState(pc)
    /\ calls.zip <= 1 /\ calls.get <= 1 /\ Len(uploaded) <= 1
    /\ (\E i \in Tasks : task[i].status # "unsubmitted")
          => job_id # "" /\ "Fetched" \in Stages
    /\ calls.zip > 0
          => /\ Step5Returned
             /\ \A i \in Tasks : task[i].status # "unsubmitted" /\ file_objects[i].dict
    /\ calls.get > 0
          => zip_result # "" /\ job_file_data.shape = "dict" /\ job_file_data.callback
    /\ uploaded # <<>> => calls.get = 1 /\ upload_url # ""
    /\ pc = "completed" => uploaded # <<>> /\ uploaded[1].status = "2xx"
    /\ exc # "" <=> pc \in {"with_exit_exc", "except", "failed"}

\* A run that failed in the archive stage, after its downloads.
C7_Witness ==
    /\ pc = "failed"
    /\ visited = <<"Start", "Fetched", "Downloading", "Archiving", "Failed">>
    /\ \E i \in Tasks : Succeeded(i)
    /\ calls.get = 0 /\ uploaded = <<>>

\* C8: main_process_job lets no exception out: a run stops only by
\* returning a record, an exception in flight is on its way to the except
\* clause or was handled there, and the record of a failed run carries the
\* error message and the elapsed time.
C8_NoPropagation ==
    /\ ~(ENABLED Next) => Returned /\ result.keys # {}
    /\ exc # "" => pc \in {"with_exit_exc", "except", "failed"}
    /\ pc = "failed" =>
          /\ {"error", "processing_time_seconds"} \subseteq result.keys
          /\ result.error = exc
          /\ exc # ""

\* A run that failed because step 5 itself raised.
C8_Witness ==
    /\ pc = "failed"
    /\ Step5Aborted
    /\ result.error = "AttributeError"

C10_JoinBeforeArchive ==
    (pc = "step6" \/ calls.zip > 0)
        => \A i \in Tasks : task[i].status \in Terminal

C10_Witness ==
    /\ pc = "step6"
    /\ total_files >= 2
    /\ \E i, j \in Tasks : Succeeded(i) /\ Exhausted(j)

\* C11: once the callback GET was answered without an upload_url, step 7
\* has reported failure (main_process_job raises "Failed to upload zip
\* file"), the run is Failed or on its way there with that error, and no PUT
\* request was or will be issued.
C11_NoUploadTarget ==
    response_data = "no upload_url"
        => /\ calls.get = 1
           /\ upload_url = ""
           /\ uploaded = <<>>
           /\ pc \in {"except", "failed"}
           /\ exc = "Failed to upload zip file"
           /\ pc = "failed" => result.error = "Failed to upload zip file"

\* A run with a downloaded file and an archive that failed on such an answer.
C11_Witness ==
    /\ pc = "failed"
    /\ response_data = "no upload_url"
    /\ zip_result # ""
    /\ \E i \in Tasks : Succeeded(i)
    /\ uploaded = <<>>

\* C12: at most one PUT of the archive is issued in a run; a PUT that raised
\* or was answered outside 2xx is not sent again: the run is then Failed, or
\* on its way there, with "Failed to upload zip file".
C12_SinglePut ==
    /\ Len(uploaded) <= 1
    /\ (uploaded # <<>> /\ uploaded[1].status # "2xx")
          => /\ pc \in {"except", "failed"}
             /\ exc = "Failed to upload zip file"
             /\ pc = "failed" => result.error = "Failed to upload zip file"

\* A run that failed on a PUT answered outside 2xx.
C12_Witness ==
    /\ pc = "failed"
    /\ Len(uploaded) = 1
    /\ uploaded[1].status = "not 2xx"

\* C13: a Completed run has produced an archive, got an upload_url from
\* the callback GET, and had the PUT of the archive answered 2xx.
C13_CompletedMeans ==
    pc = "completed"
        => /\ calls.zip = 1 /\ zip_result # "" /\ zip_file.exists
           /\ calls.get = 1 /\ response_data = "upload_url" /\ upload_url # ""
           /\ Len(uploaded) = 1 /\ uploaded[1].status = "2xx"
           /\ uploaded[1].entries = zip_file.entries

C13_Witness ==
    /\ pc = "completed"
    /\ \E i \in Tasks : Succeeded(i)
    /\ uploaded = <<Put("2xx")>>

\* Both archiving methods have run and step 6 returned no archive path.
ArchiveFailed == calls.zip > 0 /\ zip_result = "" /\ pc \notin {"fallback"}

\* C14: the callback GET is issued only after step 6 returned an archive
\* path; when the primary and the fallback method both failed, the run is
\* Failed, or on its way there, with "Failed to create zip archive", and no
\* callback GET and no PUT was issued.
C14_NoArchiveNoUpload ==
    /\ (pc \in {"callback", "step7_get", "step7_put", "completed"} \/ calls.get > 0)
          => zip_result # "" /\ zip_file.exists
    /\ ArchiveFailed
          => /\ pc \in {"except", "failed"}
             /\ exc = "Failed to create zip archive"
             /\ calls.get = 0 /\ response_data = "" /\ uploaded = <<>>

\* A run with a downloaded file whose two archiving methods failed.
C14_Witness ==
    /\ pc = "failed"
    /\ ArchiveFailed
    /\ result.error = "Failed to create zip archive"
    /\ \E i \in Tasks : Succeeded(i)

\* C15: the PUT is issued only after the one callback GET, and a Completed
\* run has called the callback URL exactly once and sent exactly one PUT.
C15_CallbackOnce ==
    /\ pc = "step7_put" => calls.get = 1 /\ uploaded = <<>>
    /\ uploaded # <<>> => calls.get = 1
    /\ pc = "completed" => calls.get = 1 /\ Len(uploaded) = 1

\* The run of a.pdf and b.pdf, both downloaded, Completed.
C15_Witness ==
    /\ pc = "completed"
    /\ total_files = 2
    /\ Succeeded(1) /\ Succeeded(2) /\ task[1].ret # task[2].ret
    /\ calls.get = 1 /\ Len(uploaded) = 1

\* The files main_process_job itself writes into the job folder.
Metadata == {"job_details.json", "log_file.txt"}

\* Step 6 returned the archive its primary method wrote.
PrimarySucceeded == zip_result # "" /\ ~fallback_zip.exists

DistinctNames ==
    \A i, j \in Tasks :
        i # j => file_objects[i].file_name # file_objects[j].file_name

SucceededNames == {task[i].ret : i \in {j \in Tasks : Succeeded(j)}}

\* C16 (as claimed): the archive uploaded by a Completed run holds exactly
\* one entry per successfully downloaded file, here for file objects with
\* distinct names and an archive written by the primary method.
C16_OneEntryPerFile ==
    (pc = "completed" /\ DistinctNames /\ PrimarySucceeded)
        => /\ uploaded[1].entries = SucceededNames
           /\ Cardinality(uploaded[1].entries) = Len(downloaded_files)

\* C16 (amended): every entry of the archive uploaded by a Completed run is
\* job_details.json, the log file or a file present in the files folder.
\* When the primary method wrote the archive it holds job_details.json, the
\* log file and every file of the files folder: one entry per distinct name
\* of a successfully downloaded file, and besides at most the files that
\* failed downloads left behind; with distinct names and no such leftover
\* that is two entries more than files were downloaded.
C16_ArchiveEntries ==
    pc = "completed" =>
        LET e == uploaded[1].entries IN
        /\ e \subseteq Metadata \cup {n \in FileNames : disk[n].exists}
        /\ PrimarySucceeded
              => /\ Metadata \subseteq e
                 /\ SucceededNames \subseteq e
                 /\ e \cap FileNames = {n \in FileNames : disk[n].exists}
                 /\ ( /\ DistinctNames
                      /\ \A n \in FileNames : disk[n].exists => n \in SucceededNames )
                    => Cardinality(e) = Len(downloaded_files) + 2

\* a.pdf downloaded, b.pdf's link failing at every attempt: three entries.
C16_Witness ==
    /\ pc = "completed"
    /\ PrimarySucceeded
    /\ total_files = 2
    /\ Succeeded(1) /\ task[1].ret = "a.pdf"
    /\ Exhausted(2) /\ file_objects[2].file_name = "b.pdf"
    /\ uploaded[1].entries = Metadata \cup {"a.pdf"}

\* a.pdf and b.pdf both downloaded: four entries.
C16_BothDownloaded ==
    /\ pc = "completed"
    /\ PrimarySucceeded
    /\ SucceededNames = {"a.pdf", "b.pdf"}
    /\ Cardinality(uploaded[1].entries) = 4

\* A file object that is a JSON object without a file_name or without a
\* presigned_url.
LacksField(f) == f.dict /\ (f.file_name = "" \/ f.presigned_url = "")

C18_OrderIndependent ==
    (Step5Returned /\ job_file_data.shape = "dict")
        => /\ {downloaded_files[k] : k \in 1..Len(downloaded_files)}
                 = SucceededNames
           /\ Len(downloaded_files) = Cardinality({i \in Tasks : Succeeded(i)})
           /\ \A i \in Tasks : task[i].status \in Terminal

\* A job larger than the pool whose first file succeeded at its second
\* attempt, after tasks submitted later had finished.
C18_Witness ==
    /\ Step5Returned
    /\ overtaken
    /\ total_files > SIMULTANEOUS_DOWNLOADS_MAX
    /\ \A i \in Tasks : Succeeded(i)
    /\ task[1].errors = 1
    /\ Len(downloaded_files) = total_files

\* C19: called with no file objects, step 5 returns an empty list: it does
\* not raise, never reaches the pool (no submission, no result loop), and
\* no download has touched the files folder.
C19_ZeroFiles ==
    total_files = 0
        => /\ pc \notin {"submit", "collect", "with_exit", "with_exit_exc"}
           /\ ("Fetched" \in Stages /\ pc # "step5")
                 => Step5Returned /\ "Downloading" \in Stages
           /\ downloaded_files = <<>>
           /\ completed_downloads = 0 /\ active_downloads = 0
           /\ \A n \in FileNames : ~disk[n].exists

C19_Witness ==
    /\ pc = "step6"
    /\ job_file_data.shape = "dict"
    /\ total_files = 0
    /\ downloaded_files = <<>>
    /\ exc = ""

\* C20 (as claimed): in every step the completed counter does not decrease
\* and the active counter does not increase.
C20_ActiveNeverIncreases ==
    [][ /\ completed_downloads' >= completed_downloads
        /\ active_downloads' <= active_downloads ]_vars

Submitted == {i \in Tasks : task[i].status # "unsubmitted"}

CountersInv ==
    /\ pc = "submit" => completed_downloads = 0 /\ active_downloads = 0
    /\ pc \in {"collect", "with_exit"}
          => /\ completed_downloads + active_downloads = Cardinality(Submitted)
             /\ Cardinality(Submitted) = total_files
    /\ pc = "collect" => completed_downloads = collect_i - 1
    /\ (Step5Returned \/ pc = "with_exit")
          => completed_downloads = total_files /\ active_downloads = 0

\* C20 (amended): the completed counter never decreases; the active counter
\* is raised once, from its initial 0 to the number of submitted tasks when
\* the submission ends, and never increases after that; from then on
\* completed + active is the number of submitted tasks, and when the
\* scheduler returns completed is the number of files and active is 0.
C20_Counters ==
    /\ []CountersInv
    /\ [][ /\ completed_downloads' >= completed_downloads
           /\ active_downloads' > active_downloads
                 => /\ pc = "submit" /\ pc' = "collect"
                    /\ active_downloads = 0
                    /\ active_downloads' = total_files ]_vars

\* The scheduler has returned after one task raised and one gave up.
C20_Witness ==
    /\ Step5Returned
    /\ \E i, j \in Tasks : task[i].status = "raised" /\ Exhausted(j)
    /\ completed_downloads = 2
    /\ active_downloads = 0

\* --------------------------------------------- properties of the entry points
Range(seq) == {seq[k] : k \in 1..Len(seq)}

\* lambda_handler is building, or has built, its descriptor; the keys its
\* loop has dealt with.
Building  == lpc \in {"keys", "persist", "respond"}
Processed == {keys_to_use[k] : k \in 1..(key_i - 1)}
LastKey   == keys_to_use[key_i - 1]

InFileList(key)  == \E f \in Range(file_object_list) : f.file_name = basename(key)
InErrorList(key) == \E e \in Range(errors) : e.file = key

\* C21 (as claimed): every key the building loop has dealt with is in
\* exactly one of the descriptor's file list and the error list.
C21_KeyInOnePlace ==
    Building => \A key \in Processed : InFileList(key) # InErrorList(key)

\* C22 (as claimed): no descriptor with an empty file list is ever stored,
\* and no producer entry point answers 200 for a job without a signed link.
C22_NoEmptyDescriptor ==
    /\ \A d \in Range(bucket) : d.file_object # <<>>
    /\ \A r \in Range(responses) :
          (r.entry = "lambda_handler" /\ r.statusCode = 200) => r.files_count > 0

\* C23: in lambda1_prepare_job a queue message or an invocation of the
\* external endpoint exists only for a job whose descriptor is in the
\* store, the queue is served before the endpoint, and a failed upload of
\* the descriptor is answered 500 with nothing stored, sent or invoked.
C23_PersistBeforeAnnounce ==
    /\ \A q \in Range(queue) : \E d \in Range(bucket) : d.job_id = q.job_id
    /\ \A v \in Range(invoked) : \E d \in Range(bucket) : d.job_id = v.job_id
    /\ lpc \in {"push", "invoke"} => bucket # <<>>
    /\ lpc = "push" => queue = <<>> /\ invoked = <<>>
    /\ response.message = "Failed to upload JSON to S3"
          => /\ response.statusCode = 500
             /\ bucket = <<>> /\ queue = <<>> /\ invoked = <<>>

\* The upload of a descriptor with signed links failed.
C23_Witness ==
    /\ response.entry = "lambda1_prepare_job"
    /\ response.statusCode = 500
    /\ response.message = "Failed to upload JSON to S3"
    /\ presigned_urls # <<>>
    /\ queue = <<>> /\ invoked = <<>>

\* The job was stored, queued and announced to the endpoint, in that order.
C23_Announced ==
    /\ response.entry = "lambda1_prepare_job"
    /\ response.statusCode = 200
    /\ bucket # <<>> /\ queue # <<>> /\ invoked # <<>>

\* C24 (as claimed): a 200 of lambda1_prepare_job means the queue accepted
\* the job's message and the external endpoint answered its invocation 200.
C24_SuccessMeansAnnounced ==
    \A r \in Range(responses) :
        (r.entry = "lambda1_prepare_job" /\ r.statusCode = 200)
            => /\ \E q \in Range(queue) : q.job_id = r.job_id
               /\ \E v \in Range(invoked) :
                     v.job_id = r.job_id /\ v.answer = "200"

\* C25 (as claimed): get_one_job, lambda1_prepare_job and the upload-URL
\* lambda_handler answer with status 200, 404 or 500 only.
C25_StatusCodes ==
    \A r \in Range(responses) :
        r.entry \in {"get_one_job", "lambda1_prepare_job", "upload_handler"}
            => r.statusCode \in {200, 404, 500}

\* C26 (as claimed): the existence check answers False for a missing
\* object and surfaces StorageUnavailable for a store that refuses or
\* cannot be reached.
C26_ExistsDistinguishes ==
    (Building /\ key_i > 1)
        => /\ store[LastKey] = "missing" => exists = "False"
           /\ store[LastKey] = "denied" => exists = "StorageUnavailable"

\* C27 (as claimed): generate_presigned_url returns a URL for an object
\* that does not exist.
C27_IssuanceUnconditional ==
    (Building /\ key_i > 1 /\ store[LastKey] = "missing")
        => presigned_url # NoUrl

\* C28 (as claimed): two jobs the producer built from the same keys, with
\* the same objects behind them, carry the same files_hash.
C28_SameFilesSameHash ==
    \A i, j \in 1..Len(responses) :
        ( /\ responses[i].entry = "lambda_handler"
          /\ responses[j].entry = "lambda_handler"
          /\ responses[i].statusCode = 200 /\ responses[j].statusCode = 200 )
        => responses[i].files_hash = responses[j].files_hash

\* The names step 6's primary method is to give the entries: the path of each
\* regular file under the job folder, but the archive, from the job folder's
\* name on.
ExpectedArcnames ==
    {<<folder_name, n>> : n \in Metadata}
    \cup {<<folder_name, job_id, n>> : n \in {m \in FileNames : disk[m].exists}}

Sleeps(i) ==
    task[i].attempt + (IF task[i].status = "sleeping" THEN 1 ELSE 0)

BackoffInv ==
    \A i \in Tasks :
        /\ task[i].waited = Pow2(Sleeps(i)) - 1
        /\ Exhausted(i) => /\ task[i].errors = max_retries + 1
                           /\ task[i].waited = Pow2(max_retries) - 1
        /\ task[i].status = "sleeping"
              => \A j \in Tasks \ {i} :
                    /\ task[j].status = "running" => ENABLED Connect(j)
                    /\ task[j].status = "opened" => ENABLED Transfer(j)
                    /\ task[j].status = "sleeping" => ENABLED Wake(j)
                    /\ ( /\ task[j].status = "queued"
                         /\ \A k \in 1..(j - 1) : task[k].status # "queued"
                         /\ Cardinality(Busy) < actual_workers )
                          => ENABLED Start(j)

\* C32: after failed attempt number a, unless it was the last, the task
\* sleeps 2^a seconds and then starts attempt a + 1; after the last failed
\* attempt it returns without sleeping, so a task that failed all
\* max_retries + 1 attempts has slept 2^max_retries - 1 seconds; and while a
\* task sleeps every other task that holds a worker can take its next step,
\* and a queued task starts as soon as a worker is idle.
C32_Backoff ==
    /\ []BackoffInv
    /\ [][ \A i \in Tasks :
             /\ task'[i].waited # task[i].waited
                   => /\ task[i].status \in {"running", "opened"}
                      /\ task'[i].status = "sleeping"
                      /\ task[i].attempt < max_retries
                      /\ task'[i].waited = task[i].waited + Pow2(task[i].attempt)
             /\ (task[i].status = "sleeping" /\ task'[i].status # "sleeping")
                   => /\ task'[i].status = "running"
                      /\ task'[i].attempt = task[i].attempt + 1
             /\ task'[i].errors > task[i].errors
                   => (task'[i].status = "sleeping") = (task[i].attempt # max_retries)
          ]_vars

\* With three retries the first file failed all four attempts, sleeping 1,
\* 2 and 4 seconds, while the second file, submitted after it, was
\* downloaded before it gave up.
C32_Witness ==
    /\ max_retries = 3
    /\ total_files = 2
    /\ Exhausted(1) /\ task[1].errors = 4 /\ task[1].waited = 7
    /\ Succeeded(2) /\ overtaken

\* C33 (as claimed): a file of the files folder holds bytes only of a task
\* of its name, so with distinct names no two tasks write one path; and a
\* file that tasks of the same name wrote holds the body of the task that
\* wrote last, whole and nothing else.
C33_LastWriterWins ==
    \A n \in FileNames :
        /\ \A k \in 1..Len(disk[n].content) :
              /\ disk[n].content[k] \in Tasks
              /\ local_file_path(disk[n].content[k]) = n
        /\ DistinctNames
              => \A i, j \in Tasks :
                    (i # j /\ task[i].requests > 0 /\ task[j].requests > 0)
                        => local_file_path(i) # local_file_path(j)
        /\ disk[n].writer # 0
              => /\ local_file_path(disk[n].writer) = n
                 /\ disk[n].content = body(disk[n].writer)

\* step_5_download_files has been entered and has not left its with block.
InScheduler == pc \in {"submit", "collect", "with_exit", "with_exit_exc"}

AllSettled ==
    \A i \in Tasks : task[i].status \in Terminal \cup {"unsubmitted"}

\* C34: when every step that can be taken is taken in the end, every
\* submitted task ends returned or raised and none starts an attempt beyond
\* number max_retries, step 5 once entered is left, and main_process_job
\* ends in Completed or Failed and stays there.
C34_Terminates ==
    /\ [](\A i \in Tasks : task[i].attempt <= max_retries)
    /\ <>[]AllSettled
    /\ InScheduler ~> (Step5Returned \/ pc \in {"except", "failed"})
    /\ <>[](pc \in {"completed", "failed"})

\* The run has ended after a task used up all its attempts with the most
\* retries allowed.
C34_Witness ==
    /\ pc \in {"completed", "failed"}
    /\ Step5Returned
    /\ max_retries = MaxRetries
    /\ \E i \in Tasks : Exhausted(i) /\ task[i].errors = max_retries + 1
    /\ \A i \in Tasks : task[i].status \in Terminal

NoCallbackUrl == job_file_data.shape = "dict" /\ ~job_file_data.callback

\* C36: a run on a descriptor without callback URL never issues the
\* callback GET or a PUT and never ends Completed; unless it failed earlier
\* it ends Failed with "No callback URL found in job data", and that error
\* is raised only after step 5 has returned, with every submitted task
\* finished, and step 6 has run and produced an archive.
C36_NoCallbackUrl ==
    NoCallbackUrl
        => /\ pc \notin {"step7_get", "step7_put", "completed"}
           /\ calls.get = 0 /\ uploaded = <<>>
           /\ response_data = "" /\ upload_url = ""
           /\ (pc = "failed" /\ zip_result # "")
                 => /\ exc = "No callback URL found in job data"
                    /\ result = ErrorRecord(exc)
           /\ exc = "No callback URL found in job data"
                 => /\ {"Downloading", "Archiving"} \subseteq Stages
                    /\ \A i \in Tasks : task[i].status \in Terminal
                    /\ completed_downloads = total_files
                    /\ calls.zip = 1
                    /\ zip_result # "" /\ zip_file.exists

\* Two files were downloaded and archived before the run failed for want
\* of a callback URL.
C36_Witness ==
    /\ NoCallbackUrl
    /\ pc = "failed"
    /\ result.error = "No callback URL found in job data"
    /\ total_files = 2 /\ Succeeded(1) /\ Succeeded(2)
    /\ zip_file.exists /\ zip_file.files_processed = 4
    /\ calls.get = 0 /\ uploaded = <<>>

\* C29 (as claimed): when the fallback wrote its archive and step 6
\* returned a path, what is uploaded is the fallback's archive, never the
\* file the failed primary method left.
C29_FallbackArchiveReturned ==
    (fallback_zip.exists /\ zip_result # "")
        => \A k \in 1..Len(uploaded) :
              /\ uploaded[k].entries = fallback_zip.entries
              /\ uploaded[k].entries \subseteq FileNames

\* C30 (as claimed): with distinct file names, a task that gave up leaves
\* no file of its name in the files folder, and the uploaded archive has
\* entries of that folder only for files that were downloaded.
C30_NoLeftover ==
    DistinctNames
        => /\ \A i \in Tasks : Exhausted(i) => ~disk[local_file_path(i)].exists
           /\ \A k \in 1..Len(uploaded) :
                 uploaded[k].entries \cap FileNames \subseteq SucceededNames

\* The upload destinations the callback endpoint has issued.
Issued ==
    {k \in 1..Len(responses) : /\ responses[k].entry = "upload_handler"
                               /\ responses[k].statusCode = 200}

\* C37: two answers of the upload-URL lambda_handler carry the same s3_key
\* exactly when they carry the same job id; the key is
\* zip_processed_by_processor/<job_id>/<job_id>.zip; and the job id of an
\* answer is that of the request, or test-job-id for a request without one.
C37_KeyOfJobId ==
    /\ \A i, j \in Issued :
          (responses[i].job_id = responses[j].job_id)
              = (responses[i].s3_key = responses[j].s3_key)
    /\ \A i \in Issued :
          /\ responses[i].job_id # ""
          /\ responses[i].s3_key
                = <<"zip_processed_by_processor", responses[i].job_id,
                    responses[i].job_id>>
    /\ (lpc = "idle" /\ response.entry = "upload_handler"
                     /\ response.statusCode = 200)
          => response.job_id = (IF event = "" THEN "test-job-id" ELSE event)

\* Two requests without a job_id were both given the default job's key.
C37_Witness ==
    /\ Len(responses) = 2
    /\ Issued = {1, 2}
    /\ event = ""
    /\ responses[1].job_id = "test-job-id"
    /\ responses[2].job_id = "test-job-id"
    /\ responses[1].s3_key = responses[2].s3_key

\* A request without a job_id and one for job J1 were given different keys.
C37_Different ==
    /\ Len(responses) = 2
    /\ Issued = {1, 2}
    /\ responses[1].job_id = "test-job-id"
    /\ responses[2].job_id = "J1"
    /\ responses[1].s3_key # responses[2].s3_key

====
